---- MODULE Spec2Model ----
(***************************************************************************)
(* A model of dashmap-benchmark (src/src/lib.rs, src/src/main.rs).         *)
(*                                                                         *)
(* Five specifications share this module, each over its own variables:     *)
(*   SpecGap   the pure function gap_nanos;                                *)
(*   SpecInit  the single-threaded driver test_init_many_maps;             *)
(*   SpecMap   the two Map backends under concurrent callers;              *)
(*   SpecCont  the multi-threaded driver test_contention                   *)
(*             (FairCont: the same with the scheduler's fairness);         *)
(*   SpecPacer the pacer loops of its sub-tasks, with the clock.           *)
(***************************************************************************)
EXTENDS Integers, Naturals, Sequences, FiniteSets, TLC

VARIABLES
    \* gap_nanos: the arguments, the returned Option<u128>, the position
    gThreads, gRate, gResult, gPc,
    \* test_init_many_maps: entries, ave_inner_items, the position, the loop
    \* index i, the inner map built in this iteration, the outer map dm (its
    \* key set and the set of inner maps stored in it), peak_mem_megs, and
    \* what was printed (number of progress reports, last percentage)
    iEntries, iAve, iPc, iI, iInner, iSample, dmKeys, dmInner, iPeak,
    iReports, iLastPct,
    \* the Map backends: which backend, the hasher's seed, the table (key ->
    \* value, 0 when absent), each lock's writer and readers, and per caller
    \* thread its position, its arguments, the result of get, the result of
    \* keys (how often each key occurs in the Vec) and the shard its
    \* iterator is at
    backend, seed, table, lockW, lockR, mPc, mArg, mGet, mKeys, mShard,
    \* history of the Map calls (read by the properties only): per key the
    \* value of the insert that returned last and the values of the inserts
    \* that returned while that one was running; per running insert the
    \* values of the inserts of its key that returned meanwhile; per running
    \* get or keys the keys whose insert had returned when it was called,
    \* whether no insert has been running since it was called, and the key
    \* sets the table has had since it was called; whether two threads have
    \* had inserts of different keys running at once
    latest, ovl, seen, hStart, hQuiet, hSnaps, hConc,
    \* test_contention: its arguments; the keys of the shared map; the
    \* calling thread's position, its loop index and the handles pushed so
    \* far; per writer and reader sub-task its position, its index in the
    \* batch and how many batches it has finished; per join supervisor its
    \* position and the handle it is joining
    focus, range, prior_writes, writes_per_second, reads_per_second,
    cheap_reads, cMap, cPc, cI, writer_handles, reader_handles,
    wPc, wJ, wRounds, rPc, rJ, rRounds, wwPc, wwI, rwPc, rwI,
    \* the pacer loops: the system clock (nanoseconds), and per kind of
    \* sub-task its position, the clock's value when it started, next, now,
    \* the nanoseconds it asked to sleep, whether it slept before the
    \* operation at hand, its index in the batch, the operations it has done
    \* and the batches it has finished
    clock, pacer

gapVars  == <<gThreads, gRate, gResult, gPc>>
initVars == <<iEntries, iAve, iPc, iI, iInner, iSample, dmKeys, dmInner, iPeak,
              iReports, iLastPct>>
mapVars  == <<backend, seed, table, lockW, lockR, mPc, mArg, mGet, mKeys,
              mShard>>
histVars == <<latest, ovl, seen, hStart, hQuiet, hSnaps, hConc>>
argVars  == <<focus, range, prior_writes, writes_per_second,
              reads_per_second, cheap_reads>>
contVars == <<argVars, cMap, cPc, cI, writer_handles, reader_handles,
              wPc, wJ, wRounds, rPc, rJ, rRounds, wwPc, wwI, rwPc, rwI>>
pacerVars == <<clock, pacer>>
vars == <<gapVars, initVars, mapVars, histVars, contVars, pacerVars>>

(***************************************************************************)
(* Option<T>                                                               *)
(***************************************************************************)
None == [tag |-> "None"]
Some(x) == [tag |-> "Some", val |-> x]

(***************************************************************************)
(* gap_nanos (lib.rs 161-167).  The product is taken in u128, where        *)
(* u64 * 10^9 cannot overflow.  TLC's integers are 32 bits wide, so the    *)
(* inputs below keep threads * 10^9 under 2^31 (threads <= 2).             *)
(***************************************************************************)
NanosPerSec == 1000000000

gap_nanos_divfirst(threads, rate_per_second) ==
    IF rate_per_second = 0
    THEN None
    ELSE Some(threads * (NanosPerSec \div rate_per_second))

gap_nanos(threads, rate_per_second) ==
    IF rate_per_second = 0
    THEN None
    ELSE Some((threads * NanosPerSec) \div rate_per_second)

\* Inputs of the gap_nanos specification.
MaxGapRate == 40
GapThreadInputs == 0..2
GapRateInputs == 0..MaxGapRate

GapCall ==
    /\ gPc = "call"
    /\ gResult' = gap_nanos(gThreads, gRate)
    /\ gPc' = "returned"
    /\ UNCHANGED <<gThreads, gRate>>

(***************************************************************************)
(* test_init_many_maps (lib.rs 23-59).                                     *)
(*                                                                         *)
(* dist.sample() is an f64 drawn from Normal(ave, ave/3): any value,       *)
(* negative ones included.  A sample is modelled in halves (s stands for   *)
(* s/2) so that the cast has a fraction to drop.  memory_usage() is the    *)
(* external sampler; it is taken to return Some(bytes).                    *)
(***************************************************************************)
MaxEntries == 200
MaxSample == 2
MaxMem == 2
AveInner == 2

EntriesInputs == {0, 1, 50, 99, 100, 150, MaxEntries}
AveInputs == {0, AveInner}
Samples == (0 - 2 * MaxSample)..(2 * MaxSample)
MemSamples == 0..MaxMem

\* `f as u64` on an f64: truncates toward zero and saturates, so a negative
\* value becomes 0 (lib.rs 38).
f64_as_u64_abs(s) == IF s < 0 THEN (0 - s) \div 2 ELSE s \div 2

f64_as_u64(s) == IF s < 0 THEN 0 ELSE s \div 2

\* 0..n as Rust's half-open range
Range(n) == 0..(n - 1)

Max(a, b) == IF a >= b THEN a ELSE b

\* Map::insert(key, value) as seen on a map's key set (lib.rs 170): the key
\* is in the map afterwards.
MapInsertNothing(m, k) == m

MapInsert(m, k) == m \cup {k}

\* The inner map of one iteration (lib.rs 36-41): empty when ave_inner_items
\* is 0, else the keys 0..(sample as u64).
InnerMapOf(ave, sample) ==
    IF ave # 0 THEN Range(f64_as_u64(sample)) ELSE {}

\* The progress boundary (lib.rs 43): i % (entries / 100) == 0.  The
\* remainder by zero panics.
BoundaryPanics(entries) == entries \div 100 = 0

AtBoundary(i, entries) == i % (entries \div 100) = 0

\* One iteration of the loop `for i in 0..entries` (lib.rs 35-52).
InitLoopBody ==
    /\ iPc = "loop"
    /\ iI < iEntries
    /\ \E sample \in Samples, mem \in MemSamples :
          /\ iAve = 0 => sample = 0
          /\ iInner' = InnerMapOf(iAve, sample)
          /\ iSample' = IF iAve # 0 THEN sample ELSE iSample
          /\ dmKeys' = MapInsert(dmKeys, iI)
          /\ dmInner' = dmInner \cup {iInner'}
          /\ IF BoundaryPanics(iEntries)
             THEN /\ iPc' = "panicked"
                  /\ mem = 0
                  /\ UNCHANGED <<iI, iPeak, iReports, iLastPct>>
             ELSE IF AtBoundary(iI, iEntries)
             THEN /\ iPeak' = Max(iPeak, mem)
                  /\ iReports' = iReports + 1
                  /\ iLastPct' = iI \div (iEntries \div 100)
                  /\ iI' = iI + 1
                  /\ iPc' = "loop"
             ELSE /\ mem = 0
                  /\ iI' = iI + 1
                  /\ UNCHANGED <<iPc, iPeak, iReports, iLastPct>>
    /\ UNCHANGED <<iEntries, iAve>>

\* The loop is over: "allocated 100%", the Init duration, "dropping..."
\* (lib.rs 53-56).
InitLoopExit ==
    /\ iPc = "loop"
    /\ iI = iEntries
    /\ iPc' = "dropping"
    /\ UNCHANGED <<iEntries, iAve, iI, iInner, iSample, dmKeys, dmInner, iPeak,
                   iReports, iLastPct>>

\* dm goes out of scope and is dropped, then the Drop duration is printed
\* (lib.rs 57-58).
InitDrop ==
    /\ iPc = "dropping"
    /\ iPc' = "returned"
    /\ dmKeys' = {}
    /\ dmInner' = {}
    /\ UNCHANGED <<iEntries, iAve, iI, iInner, iSample, iPeak, iReports, iLastPct>>

(***************************************************************************)
(* The Map trait and its two backends (lib.rs 169-201).                    *)
(*                                                                         *)
(* DashMap<K, V> is an array of NShards tables, each behind its own        *)
(* read/write lock; a key lives in the shard its hash selects.             *)
(* RwLock<HashMap<K, V>> is one table behind one lock: shard 0 alone.      *)
(* A lock is held by one writer or by any number of readers.               *)
(***************************************************************************)
\* Caller threads, keys and values of the Map specification.
NThreads == 2
MaxKey == 1
MaxVal == 2
MaxSeed == 2

\* args.dashmap_shards() (main.rs 82-89): a power of two, as DashMap requires.
NShards == 4

Threads == 1..NThreads
Keys == 0..MaxKey
Vals == 1..MaxVal
Seeds == 0..MaxSeed
Backends == {"DashMap", "RwLockHashMap"}
Absent == 0

\* RandomState::default() (lib.rs 15): a hasher with a random seed.  Seed 0
\* sends every key to the same shard, seed 1 neighbouring keys to
\* neighbouring shards, larger seeds spread them further.
Hash(sd, k) == k * sd

NumShards == IF backend = "DashMap" THEN NShards ELSE 1
ShardIds == 0..(NShards - 1)
ShardOf(k) == IF backend = "DashMap" THEN Hash(seed, k) % NShards ELSE 0

\* HashMap::insert: inserts or overwrites.
HashMapInsertKeepOld(m, k, v) ==
    IF m[k] # Absent THEN m ELSE [m EXCEPT ![k] = v]

HashMapInsert(m, k, v) == [m EXCEPT ![k] = v]

\* HashMap::get
HashMapGetMiss(m, k) == None

HashMapGet(m, k) == IF m[k] = Absent THEN None ELSE Some(m[k])

\* The keys of a table, and of one shard of it
KeySet(m) == {k \in Keys : m[k] # Absent}
ShardKeysSkipLast(m, sh) ==
    {k \in KeySet(m) : ShardOf(k) = sh /\ sh + 1 < NumShards}

ShardKeys(m, sh) == {k \in KeySet(m) : ShardOf(k) = sh}

\* A Vec<K> up to the order of its elements: how often each key occurs.
EmptyVec == [k \in Keys |-> 0]
ExtendTwice(vec, ks) == [k \in Keys |-> vec[k] + (IF k \in ks THEN 2 ELSE 0)]

Extend(vec, ks) == [k \in Keys |-> vec[k] + (IF k \in ks THEN 1 ELSE 0)]
VecSet(vec) == {k \in Keys : vec[k] > 0}

CanRead(sh) == lockW[sh] = 0

CanWriteBesideReaders(sh) == lockW[sh] = 0

CanWrite(sh) == lockW[sh] = 0 /\ lockR[sh] = {}

\* The threads with an insert running (called, not yet returned), of key k
Inserting == {u \in Threads : mPc[u] \in {"ins_lock", "ins_unlock", "ins_ret"}}
InsertingKey(k) == {u \in Inserting : mArg[u].k = k}
\* The threads with a get or a keys running
Getting == {u \in Threads : mPc[u] \in {"get_lock", "get_miss", "handle"}}
Enumerating == {u \in Threads : mPc[u] \in {"keys_lock", "keys_unlock"}}

NoArg == [k |-> 0, v |-> 0]

\* insert(key, value) is called (lib.rs 176, 190).
InsertCall(t, k, v) ==
    /\ mPc[t] = "idle"
    /\ mPc' = [mPc EXCEPT ![t] = "ins_lock"]
    /\ mArg' = [mArg EXCEPT ![t] = [k |-> k, v |-> v]]
    /\ seen' = [seen EXCEPT ![t] = {}]
    /\ hQuiet' = [u \in Threads |->
                    IF u \in Enumerating \/ (u \in Getting /\ mArg[u].k = k)
                    THEN FALSE ELSE hQuiet[u]]
    /\ hConc' = (hConc \/ \E u \in Inserting : mArg[u].k # k)
    /\ UNCHANGED <<backend, seed, table, lockW, lockR, mGet, mKeys, mShard,
                   latest, ovl, hStart, hSnaps>>

\* The write lock of the key's shard (DashMap) or of the map (self.write())
\* is taken and HashMap::insert runs under it (lib.rs 177, 191).
InsertLock(t) ==
    LET k == mArg[t].k
        sh == ShardOf(k)
    IN  /\ mPc[t] = "ins_lock"
        /\ CanWrite(sh)
        /\ lockW' = [lockW EXCEPT ![sh] = t]
        /\ table' = HashMapInsert(table, k, mArg[t].v)
        /\ mPc' = [mPc EXCEPT ![t] = "ins_unlock"]
        /\ hSnaps' = [u \in Threads |->
                        IF u \in Enumerating
                        THEN hSnaps[u] \cup {KeySet(table')}
                        ELSE hSnaps[u]]
        /\ UNCHANGED <<backend, seed, lockR, mArg, mGet, mKeys, mShard,
                       latest, ovl, seen, hStart, hQuiet, hConc>>

\* The write guard is dropped at the end of the statement (lib.rs 177, 191).
InsertUnlock(t) ==
    /\ mPc[t] = "ins_unlock"
    /\ lockW' = [lockW EXCEPT ![ShardOf(mArg[t].k)] = 0]
    /\ mPc' = [mPc EXCEPT ![t] = "ins_ret"]
    /\ UNCHANGED <<backend, seed, table, lockR, mArg, mGet, mKeys, mShard,
                   histVars>>

\* insert returns to its caller (lib.rs 178, 192).
InsertReturn(t) ==
    LET k == mArg[t].k
        v == mArg[t].v
    IN  /\ mPc[t] = "ins_ret"
        /\ mPc' = [mPc EXCEPT ![t] = "idle"]
        /\ mArg' = [mArg EXCEPT ![t] = NoArg]
        /\ latest' = [latest EXCEPT ![k] = v]
        /\ ovl' = [ovl EXCEPT ![k] = seen[t]]
        /\ seen' = [u \in Threads |->
                      IF u = t THEN {}
                      ELSE IF u \in InsertingKey(k) THEN seen[u] \cup {v}
                      ELSE seen[u]]
        /\ UNCHANGED <<backend, seed, table, lockW, lockR, mGet, mKeys,
                       mShard, hStart, hQuiet, hSnaps, hConc>>

\* get(&key) is called (lib.rs 180, 194).
GetCall(t, k) ==
    /\ mPc[t] = "idle"
    /\ mPc' = [mPc EXCEPT ![t] = "get_lock"]
    /\ mArg' = [mArg EXCEPT ![t] = [k |-> k, v |-> 0]]
    /\ hStart' = [hStart EXCEPT ![t] = {k} \cap {j \in Keys : latest[j] # 0}]
    /\ hQuiet' = [hQuiet EXCEPT ![t] = InsertingKey(k) = {}]
    /\ UNCHANGED <<backend, seed, table, lockW, lockR, mGet, mKeys, mShard,
                   latest, ovl, seen, hSnaps, hConc>>

\* The read lock is taken and the key looked up under it.  A hit returns a
\* handle that keeps the read guard (DashMap's Ref, the mapped guard); a
\* miss still holds the guard until it is dropped (lib.rs 181, 195).
GetLock(t) ==
    LET k == mArg[t].k
        sh == ShardOf(k)
        found == HashMapGet(table, k)
    IN  /\ mPc[t] = "get_lock"
        /\ CanRead(sh)
        /\ lockR' = [lockR EXCEPT ![sh] = @ \cup {t}]
        /\ mGet' = [mGet EXCEPT ![t] = found]
        /\ mPc' = [mPc EXCEPT ![t] = IF found = None THEN "get_miss"
                                     ELSE "handle"]
        /\ UNCHANGED <<backend, seed, table, lockW, mArg, mKeys, mShard,
                       histVars>>

\* A miss: the guard is dropped and get returns None (lib.rs 181, 195).
GetMiss(t) ==
    /\ mPc[t] = "get_miss"
    /\ lockR' = [lockR EXCEPT ![ShardOf(mArg[t].k)] = @ \ {t}]
    /\ mPc' = [mPc EXCEPT ![t] = "idle"]
    /\ mArg' = [mArg EXCEPT ![t] = NoArg]
    /\ hStart' = [hStart EXCEPT ![t] = {}]
    /\ hQuiet' = [hQuiet EXCEPT ![t] = FALSE]
    /\ UNCHANGED <<backend, seed, table, lockW, mGet, mKeys, mShard,
                   latest, ovl, seen, hSnaps, hConc>>

\* The caller drops the handle get returned: the read guard goes with it.
HandleDrop(t) ==
    /\ mPc[t] = "handle"
    /\ lockR' = [lockR EXCEPT ![ShardOf(mArg[t].k)] = @ \ {t}]
    /\ mPc' = [mPc EXCEPT ![t] = "idle"]
    /\ mArg' = [mArg EXCEPT ![t] = NoArg]
    /\ mGet' = [mGet EXCEPT ![t] = None]
    /\ hStart' = [hStart EXCEPT ![t] = {}]
    /\ hQuiet' = [hQuiet EXCEPT ![t] = FALSE]
    /\ UNCHANGED <<backend, seed, table, lockW, mKeys, mShard,
                   latest, ovl, seen, hSnaps, hConc>>

\* keys() is called (lib.rs 184, 198).
KeysCall(t) ==
    /\ mPc[t] = "idle"
    /\ mPc' = [mPc EXCEPT ![t] = "keys_lock"]
    /\ mKeys' = [mKeys EXCEPT ![t] = EmptyVec]
    /\ mShard' = [mShard EXCEPT ![t] = 0]
    /\ hStart' = [hStart EXCEPT ![t] = {j \in Keys : latest[j] # 0}]
    /\ hQuiet' = [hQuiet EXCEPT ![t] = Inserting = {}]
    /\ hSnaps' = [hSnaps EXCEPT ![t] = {KeySet(table)}]
    /\ UNCHANGED <<backend, seed, table, lockW, lockR, mArg, mGet,
                   latest, ovl, seen, hConc>>

\* RwLock<HashMap>: self.read().keys().cloned().collect() takes the read
\* lock and copies every key under it (lib.rs 199).
\* DashMap: self.iter() visits the shards in order; moving on, it takes the
\* read lock of the next shard, lets go of the previous one and yields the
\* keys of the shard it now holds (lib.rs 185).
KeysLock(t) ==
    LET sh == mShard[t]
    IN  /\ mPc[t] = "keys_lock"
        /\ CanRead(sh)
        /\ lockR' = [s \in ShardIds |->
                       IF s = sh THEN lockR[s] \cup {t}
                       ELSE IF s + 1 = sh THEN lockR[s] \ {t}
                       ELSE lockR[s]]
        /\ mKeys' = [mKeys EXCEPT ![t] = Extend(@, ShardKeys(table, sh))]
        /\ IF sh + 1 < NumShards
           THEN /\ mShard' = [mShard EXCEPT ![t] = sh + 1]
                /\ UNCHANGED mPc
           ELSE /\ mPc' = [mPc EXCEPT ![t] = "keys_unlock"]
                /\ UNCHANGED mShard
        /\ UNCHANGED <<backend, seed, table, lockW, mArg, mGet, histVars>>

\* The iterator (the read guard) is dropped and keys returns the Vec
\* (lib.rs 185-186, 199-200).
KeysUnlock(t) ==
    /\ mPc[t] = "keys_unlock"
    /\ lockR' = [lockR EXCEPT ![mShard[t]] = @ \ {t}]
    /\ mPc' = [mPc EXCEPT ![t] = "idle"]
    /\ mKeys' = [mKeys EXCEPT ![t] = EmptyVec]
    /\ mShard' = [mShard EXCEPT ![t] = 0]
    /\ hStart' = [hStart EXCEPT ![t] = {}]
    /\ hQuiet' = [hQuiet EXCEPT ![t] = FALSE]
    /\ hSnaps' = [hSnaps EXCEPT ![t] = {}]
    /\ UNCHANGED <<backend, seed, table, lockW, mArg, mGet,
                   latest, ovl, seen, hConc>>

(***************************************************************************)
(* test_contention (lib.rs 69-159).                                        *)
(*                                                                         *)
(* A call of the shared map is one step here (its locking is what SpecMap  *)
(* models), and the clock is the environment's: whether a sub-task finds   *)
(* itself ahead of schedule (now < next) is its choice.                    *)
(***************************************************************************)
\* std::thread::available_parallelism() (lib.rs 81)
threads_each == 2

\* Arguments of the test_contention specification.
MaxRange == 1
MaxPrior == 1
MaxRate == 3
\* A count of finished batches stops at MaxRounds ("that many or more").
MaxRounds == 2

Subtasks == Range(threads_each)
FocusInputs == {"None", "Read", "Write"}
\* No sub-task (0), sub-tasks with an empty batch (1), and a rate that
\* threads_each does not divide (MaxRate).
RateInputs == {0, 1, MaxRate}

\* rng.gen_range(0..=range) (lib.rs 88, 105, 127)
gen_range_exclusive(rg) == 0..(rg + 1)

gen_range(rg) == 0..rg

\* writes_per_second / threads_each, reads_per_second / threads_each
\* (lib.rs 100, 121)
BatchRoundedUp(rate) == (rate + threads_each - 1) \div threads_each

Batch(rate) == rate \div threads_each

\* The sub-task loops' exit tests: focus != Some(ContentionFocus::Read) in
\* a writer (lib.rs 108), focus != Some(ContentionFocus::Write) in a reader
\* (lib.rs 133).
NotFocusReadSwapped(f) == f # "Write"

NotFocusRead(f) == f # "Read"

NotFocusWrite(f) == f # "Write"

\* The calling thread's tests before it joins a supervisor (lib.rs 153, 156).
JoinsWriteWaiterAlways(f) == TRUE

JoinsWriteWaiter(f) == f # "Read"

JoinsReadWaiter(f) == f # "Write"

\* handle.join() returns once the thread has finished (lib.rs 143, 149,
\* 154, 157).
JoinedAnyway(pc) == TRUE

Joined(pc) == pc \in {"exited", "reported"}

Bump(n) == IF n < MaxRounds THEN n + 1 ELSE n

\* `if let Some(gap) = ...` (lib.rs 94, 115)
IsSomeAlways(o) == TRUE

IsSome(o) == o # None

\* Map::get(&key) and Map::keys() as seen on the map's key set (lib.rs
\* 171-172): both take &self and only read.
MapAfterGetInserting(m, k) == m \cup {k}

MapAfterGet(m, k) == m

MapAfterKeys(m) == m

\* The setup loop: one prior write (lib.rs 87-89).
PriorWrite ==
    /\ cPc = "setup"
    /\ cI < prior_writes
    /\ \E k \in gen_range(range) : cMap' = MapInsert(cMap, k)
    /\ cI' = cI + 1
    /\ UNCHANGED <<argVars, cPc, writer_handles, reader_handles, wPc, wJ,
                   wRounds, rPc, rJ, rRounds, wwPc, wwI, rwPc, rwI>>

\* The setup loop is over; start is taken (lib.rs 89-92).
SetupDone ==
    /\ cPc = "setup"
    /\ cI = prior_writes
    /\ cPc' = "spawn_writer"
    /\ cI' = 0
    /\ UNCHANGED <<argVars, cMap, writer_handles, reader_handles, wPc, wJ,
                   wRounds, rPc, rJ, rRounds, wwPc, wwI, rwPc, rwI>>

\* One pass of `for _ in 0..threads_each`, first half: a writer sub-task is
\* spawned if write_gap_nanos is Some (lib.rs 92-113).
SpawnWriter ==
    /\ cPc = "spawn_writer"
    /\ cI < threads_each
    /\ IF IsSome(gap_nanos(threads_each, writes_per_second))
       THEN /\ wPc' = [wPc EXCEPT ![cI] = "batch"]
            /\ writer_handles' = Append(writer_handles, cI)
       ELSE UNCHANGED <<wPc, writer_handles>>
    /\ cPc' = "spawn_reader"
    /\ UNCHANGED <<argVars, cMap, cI, reader_handles, wJ, wRounds, rPc, rJ,
                   rRounds, wwPc, wwI, rwPc, rwI>>

\* Second half: a reader sub-task is spawned if read_gap_nanos is Some
\* (lib.rs 114-139).
SpawnReader ==
    /\ cPc = "spawn_reader"
    /\ IF IsSome(gap_nanos(threads_each, reads_per_second))
       THEN /\ rPc' = [rPc EXCEPT ![cI] = "batch"]
            /\ reader_handles' = Append(reader_handles, cI)
       ELSE UNCHANGED <<rPc, reader_handles>>
    /\ cPc' = "spawn_writer"
    /\ cI' = cI + 1
    /\ UNCHANGED <<argVars, cMap, writer_handles, wPc, wJ, wRounds, rJ,
                   rRounds, wwPc, wwI, rwPc, rwI>>

\* Both join supervisors are spawned; the handles move into them
\* (lib.rs 141-152).
SpawnWaiters ==
    /\ cPc = "spawn_writer"
    /\ cI = threads_each
    /\ wwPc' = "joining"
    /\ rwPc' = "joining"
    /\ cPc' = "join_write"
    /\ UNCHANGED <<argVars, cMap, cI, writer_handles, reader_handles, wPc,
                   wJ, wRounds, rPc, rJ, rRounds, wwI, rwI>>

\* write_waiter is joined unless the focus is Read (lib.rs 153-155).
JoinWriteWaiter ==
    /\ cPc = "join_write"
    /\ JoinsWriteWaiter(focus) => Joined(wwPc)
    /\ cPc' = "join_read"
    /\ UNCHANGED <<argVars, cMap, cI, writer_handles, reader_handles, wPc,
                   wJ, wRounds, rPc, rJ, rRounds, wwPc, wwI, rwPc, rwI>>

\* read_waiter is joined unless the focus is Write, and test_contention
\* returns (lib.rs 156-159).
JoinReadWaiter ==
    /\ cPc = "join_read"
    /\ JoinsReadWaiter(focus) => Joined(rwPc)
    /\ cPc' = "returned"
    /\ UNCHANGED <<argVars, cMap, cI, writer_handles, reader_handles, wPc,
                   wJ, wRounds, rPc, rJ, rRounds, wwPc, wwI, rwPc, rwI>>

\* A writer sub-task at the head of its batch with operations left reads the
\* clock: ahead of schedule it goes to sleep, else straight to the insert
\* (lib.rs 100-104).
WriterPace(i) ==
    /\ wPc[i] = "batch"
    /\ wJ[i] < Batch(writes_per_second)
    /\ \E ahead \in BOOLEAN :
          wPc' = [wPc EXCEPT ![i] = IF ahead THEN "sleep" ELSE "op"]
    /\ UNCHANGED <<argVars, cMap, cPc, cI, writer_handles, reader_handles,
                   wJ, wRounds, rPc, rJ, rRounds, wwPc, wwI, rwPc, rwI>>

\* thread::sleep returns (lib.rs 103).
WriterWake(i) ==
    /\ wPc[i] = "sleep"
    /\ wPc' = [wPc EXCEPT ![i] = "op"]
    /\ UNCHANGED <<argVars, cMap, cPc, cI, writer_handles, reader_handles,
                   wJ, wRounds, rPc, rJ, rRounds, wwPc, wwI, rwPc, rwI>>

\* The writer's operation: a random key is inserted, next advances
\* (lib.rs 105-106).
WriterInsert(i) ==
    /\ wPc[i] = "op"
    /\ \E k \in gen_range(range) : cMap' = MapInsert(cMap, k)
    /\ wJ' = [wJ EXCEPT ![i] = @ + 1]
    /\ wPc' = [wPc EXCEPT ![i] = "batch"]
    /\ UNCHANGED <<argVars, cPc, cI, writer_handles, reader_handles,
                   wRounds, rPc, rJ, rRounds, wwPc, wwI, rwPc, rwI>>

\* The batch is over: the writer leaves the loop unless the focus is Read,
\* and then it starts the batch again (lib.rs 107-111).
WriterBatchEnd(i) ==
    /\ wPc[i] = "batch"
    /\ wJ[i] = Batch(writes_per_second)
    /\ wRounds' = [wRounds EXCEPT ![i] = Bump(@)]
    /\ IF NotFocusRead(focus)
       THEN /\ wPc' = [wPc EXCEPT ![i] = "exited"]
            /\ UNCHANGED wJ
       ELSE /\ wJ' = [wJ EXCEPT ![i] = 0]
            /\ UNCHANGED wPc
    /\ UNCHANGED <<argVars, cMap, cPc, cI, writer_handles, reader_handles,
                   rPc, rJ, rRounds, wwPc, wwI, rwPc, rwI>>

\* A reader sub-task reads the clock (lib.rs 121-125).
ReaderPace(i) ==
    /\ rPc[i] = "batch"
    /\ rJ[i] < Batch(reads_per_second)
    /\ \E ahead \in BOOLEAN :
          rPc' = [rPc EXCEPT ![i] = IF ahead THEN "sleep" ELSE "op"]
    /\ UNCHANGED <<argVars, cMap, cPc, cI, writer_handles, reader_handles,
                   wPc, wJ, wRounds, rJ, rRounds, wwPc, wwI, rwPc, rwI>>

\* thread::sleep returns (lib.rs 124).
ReaderWake(i) ==
    /\ rPc[i] = "sleep"
    /\ rPc' = [rPc EXCEPT ![i] = "op"]
    /\ UNCHANGED <<argVars, cMap, cPc, cI, writer_handles, reader_handles,
                   wPc, wJ, wRounds, rJ, rRounds, wwPc, wwI, rwPc, rwI>>

\* The reader's operation: get of a random key, or keys(); the result is
\* dropped at once; next advances (lib.rs 126-131).
ReaderRead(i) ==
    /\ rPc[i] = "op"
    /\ IF cheap_reads
       THEN \E k \in gen_range(range) : cMap' = MapAfterGet(cMap, k)
       ELSE cMap' = MapAfterKeys(cMap)
    /\ rJ' = [rJ EXCEPT ![i] = @ + 1]
    /\ rPc' = [rPc EXCEPT ![i] = "batch"]
    /\ UNCHANGED <<argVars, cPc, cI, writer_handles, reader_handles,
                   wPc, wJ, wRounds, rRounds, wwPc, wwI, rwPc, rwI>>

\* The batch is over: the reader leaves the loop unless the focus is Write
\* (lib.rs 132-136).
ReaderBatchEnd(i) ==
    /\ rPc[i] = "batch"
    /\ rJ[i] = Batch(reads_per_second)
    /\ rRounds' = [rRounds EXCEPT ![i] = Bump(@)]
    /\ IF NotFocusWrite(focus)
       THEN /\ rPc' = [rPc EXCEPT ![i] = "exited"]
            /\ UNCHANGED rJ
       ELSE /\ rJ' = [rJ EXCEPT ![i] = 0]
            /\ UNCHANGED rPc
    /\ UNCHANGED <<argVars, cMap, cPc, cI, writer_handles, reader_handles,
                   wPc, wJ, wRounds, wwPc, wwI, rwPc, rwI>>

\* write_waiter joins the next writer handle (lib.rs 142-144).
WriteWaiterJoin ==
    /\ wwPc = "joining"
    /\ wwI < Len(writer_handles)
    /\ Joined(wPc[writer_handles[wwI + 1]])
    /\ wwI' = wwI + 1
    /\ UNCHANGED <<argVars, cMap, cPc, cI, writer_handles, reader_handles,
                   wPc, wJ, wRounds, rPc, rJ, rRounds, wwPc, rwPc, rwI>>

\* Every writer is joined: "Contention test (writers) duration" is printed
\* and write_waiter finishes (lib.rs 145-146).
WriteWaiterReport ==
    /\ wwPc = "joining"
    /\ wwI = Len(writer_handles)
    /\ wwPc' = "reported"
    /\ UNCHANGED <<argVars, cMap, cPc, cI, writer_handles, reader_handles,
                   wPc, wJ, wRounds, rPc, rJ, rRounds, wwI, rwPc, rwI>>

\* read_waiter joins the next reader handle (lib.rs 148-150).
ReadWaiterJoin ==
    /\ rwPc = "joining"
    /\ rwI < Len(reader_handles)
    /\ Joined(rPc[reader_handles[rwI + 1]])
    /\ rwI' = rwI + 1
    /\ UNCHANGED <<argVars, cMap, cPc, cI, writer_handles, reader_handles,
                   wPc, wJ, wRounds, rPc, rJ, rRounds, wwPc, wwI, rwPc>>

\* Every reader is joined: "Contention test (readers) duration" is printed
\* and read_waiter finishes (lib.rs 151-152).
ReadWaiterReport ==
    /\ rwPc = "joining"
    /\ rwI = Len(reader_handles)
    /\ rwPc' = "reported"
    /\ UNCHANGED <<argVars, cMap, cPc, cI, writer_handles, reader_handles,
                   wPc, wJ, wRounds, rPc, rJ, rRounds, wwPc, wwI, rwI>>

\* The steps of the calling thread, of one sub-task, of a supervisor
MainStep ==
    \/ PriorWrite
    \/ SetupDone
    \/ SpawnWriter
    \/ SpawnReader
    \/ SpawnWaiters
    \/ JoinWriteWaiter
    \/ JoinReadWaiter

WriterStep(i) ==
    \/ WriterPace(i)
    \/ WriterWake(i)
    \/ WriterInsert(i)
    \/ WriterBatchEnd(i)

ReaderStep(i) ==
    \/ ReaderPace(i)
    \/ ReaderWake(i)
    \/ ReaderRead(i)
    \/ ReaderBatchEnd(i)

WriteWaiterStep == WriteWaiterJoin \/ WriteWaiterReport

ReadWaiterStep == ReadWaiterJoin \/ ReadWaiterReport

(***************************************************************************)
(* The pacer loop of a sub-task, with the clock                            *)
(*                                                                         *)
(* One writer and one reader sub-task of test_contention, from the moment  *)
(* their threads start, seen together with the system clock that           *)
(* unix_timestamp_nanos reads.  The clock does not go back and a sleep     *)
(* lasts at least as long as was asked.  Times are nanoseconds.            *)
(***************************************************************************)
\* The latest instant of a run of the pacer specification.
MaxTime == 2000000000
\* The clock's coarse step.
TickNanos == 400000000

Kinds == {"writer", "reader"}

\* Rates with a batch of 0, 1 and 2 operations per sub-task.
PacerRates == {1, 3, 5}

\* writes_per_second for a writer, reads_per_second for a reader
\* (lib.rs 82-83, 100, 121)
RateOf(kind) ==
    IF kind = "writer" THEN writes_per_second ELSE reads_per_second

\* write_gap_nanos, read_gap_nanos (lib.rs 82-83, 94, 115)
GapOf(kind) == gap_nanos(threads_each, RateOf(kind)).val

\* The sub-task leaves its loop after one batch (lib.rs 108, 133).
Breaks(kind) ==
    IF kind = "writer" THEN NotFocusRead(focus) ELSE NotFocusWrite(focus)

\* now < next (lib.rs 102, 123)
AheadOrOnTime(now, next) == now <= next

Ahead(now, next) == now < next

\* (next - now) as u64, the nanoseconds asked of thread::sleep
\* (lib.rs 103, 124)
SleepNanosFromStart(now, next, start) == next - start

SleepNanos(now, next, start) == next - now

\* next += gap (lib.rs 106, 131)
NextFireFromNow(next, gap, now) == now + gap

NextFire(next, gap, now) == next + gap

\* The thread starts: next is the clock's value (lib.rs 97-98, 118-119).
PacerStart(kind) ==
    /\ pacer[kind].pc = "spawned"
    /\ pacer' = [pacer EXCEPT ![kind].pc = "batch",
                              ![kind].start = clock,
                              ![kind].next = clock]
    /\ UNCHANGED <<clock, argVars>>

\* An operation is due: the clock is read and, when the sub-task is ahead
\* of schedule, thread::sleep is called (lib.rs 100-104, 121-125).  A run
\* of the specification stops short of MaxTime.
PacerPace(kind) ==
    LET p == pacer[kind] IN
    /\ p.pc = "batch"
    /\ p.j < Batch(RateOf(kind))
    /\ p.next <= MaxTime - GapOf(kind)
    /\ pacer' = [pacer EXCEPT
                   ![kind].now = clock,
                   ![kind].pc = IF Ahead(clock, p.next) THEN "sleep" ELSE "op",
                   ![kind].sleep = IF Ahead(clock, p.next)
                                   THEN SleepNanos(clock, p.next, p.start)
                                   ELSE 0,
                   ![kind].slept = Ahead(clock, p.next)]
    /\ UNCHANGED <<clock, argVars>>

\* thread::sleep returns, not before the time asked has passed
\* (lib.rs 103, 124).
PacerWake(kind) ==
    LET p == pacer[kind] IN
    /\ p.pc = "sleep"
    /\ clock >= p.now + p.sleep
    /\ pacer' = [pacer EXCEPT ![kind].pc = "op"]
    /\ UNCHANGED <<clock, argVars>>

\* The operation (insert, or get / keys) and next += gap
\* (lib.rs 105-106, 126-131).
PacerOp(kind) ==
    LET p == pacer[kind] IN
    /\ p.pc = "op"
    /\ pacer' = [pacer EXCEPT
                   ![kind].next = NextFire(p.next, GapOf(kind), p.now),
                   ![kind].now = 0,
                   ![kind].sleep = 0,
                   ![kind].slept = FALSE,
                   ![kind].j = p.j + 1,
                   ![kind].ops = p.ops + 1,
                   ![kind].pc = "batch"]
    /\ UNCHANGED <<clock, argVars>>

\* The batch is over: the sub-task leaves the loop, or, when the other kind
\* is the focus, starts the batch again with next as it is
\* (lib.rs 107-111, 132-136).
PacerBatchEnd(kind) ==
    LET p == pacer[kind] IN
    /\ p.pc = "batch"
    /\ p.j = Batch(RateOf(kind))
    /\ pacer' = [pacer EXCEPT
                   ![kind].pc = IF Breaks(kind) THEN "exited" ELSE "batch",
                   ![kind].j = IF Breaks(kind) THEN p.j ELSE 0,
                   ![kind].rounds = Bump(p.rounds)]
    /\ UNCHANGED <<clock, argVars>>

\* Time passes: up to the next multiple of the coarse step, or up to a
\* sub-task's next fire time.
Instants ==
    {t \in (IF clock <= MaxTime - TickNanos
             THEN {((clock \div TickNanos) + 1) * TickNanos}
             ELSE {})
           \cup {pacer[kind].next : kind \in Kinds} :
        clock < t /\ t <= MaxTime}

Tick ==
    /\ \E t \in Instants : clock' = t
    /\ UNCHANGED <<pacer, argVars>>

NoPacer ==
    [pc |-> "parked", start |-> 0, next |-> 0, now |-> 0, sleep |-> 0,
     slept |-> FALSE, j |-> 0, ops |-> 0, rounds |-> 0]

(***************************************************************************)
(* The specifications                                                      *)
(***************************************************************************)
\* gap_nanos is about to be called with arguments drawn from the inputs.
GapInit ==
    /\ gThreads \in GapThreadInputs
    /\ gRate \in GapRateInputs
    /\ gResult = None
    /\ gPc = "call"
    /\ iEntries = 0 /\ iAve = 0 /\ iPc = "parked" /\ iI = 0 /\ iInner = {}
    /\ iSample = 0
    /\ dmKeys = {} /\ dmInner = {} /\ iPeak = 0 /\ iReports = 0
    /\ iLastPct = 0
    /\ backend = "parked" /\ seed = 0 /\ table = [k \in Keys |-> Absent]
    /\ lockW = [s \in ShardIds |-> 0] /\ lockR = [s \in ShardIds |-> {}]
    /\ mPc = [t \in Threads |-> "parked"] /\ mArg = [t \in Threads |-> NoArg]
    /\ mGet = [t \in Threads |-> None] /\ mKeys = [t \in Threads |-> EmptyVec]
    /\ mShard = [t \in Threads |-> 0]
    /\ latest = [k \in Keys |-> 0] /\ ovl = [k \in Keys |-> {}]
    /\ seen = [t \in Threads |-> {}] /\ hStart = [t \in Threads |-> {}]
    /\ hQuiet = [t \in Threads |-> FALSE] /\ hSnaps = [t \in Threads |-> {}]
    /\ hConc = FALSE
    /\ focus = "None" /\ range = 0 /\ prior_writes = 0
    /\ writes_per_second = 0 /\ reads_per_second = 0 /\ cheap_reads = FALSE
    /\ cMap = {} /\ cPc = "parked" /\ cI = 0
    /\ writer_handles = <<>> /\ reader_handles = <<>>
    /\ wPc = [i \in Subtasks |-> "parked"] /\ wJ = [i \in Subtasks |-> 0]
    /\ wRounds = [i \in Subtasks |-> 0]
    /\ rPc = [i \in Subtasks |-> "parked"] /\ rJ = [i \in Subtasks |-> 0]
    /\ rRounds = [i \in Subtasks |-> 0]
    /\ wwPc = "parked" /\ wwI = 0 /\ rwPc = "parked" /\ rwI = 0
    /\ clock = 0 /\ pacer = [kind \in Kinds |-> NoPacer]

GapNext == GapCall /\ UNCHANGED <<initVars, mapVars, histVars, contVars, pacerVars>>

SpecGap == GapInit /\ [][GapNext]_vars

\* test_init_many_maps is entered: dm is new and empty (lib.rs 29-34).
InitInit ==
    /\ iEntries \in EntriesInputs
    /\ iAve \in AveInputs
    /\ iPc = "loop"
    /\ iI = 0
    /\ iInner = {}
    /\ iSample = 0
    /\ dmKeys = {}
    /\ dmInner = {}
    /\ iPeak = 0
    /\ iReports = 0
    /\ iLastPct = 0
    /\ gThreads = 0 /\ gRate = 0 /\ gResult = None /\ gPc = "parked"
    /\ backend = "parked" /\ seed = 0 /\ table = [k \in Keys |-> Absent]
    /\ lockW = [s \in ShardIds |-> 0] /\ lockR = [s \in ShardIds |-> {}]
    /\ mPc = [t \in Threads |-> "parked"] /\ mArg = [t \in Threads |-> NoArg]
    /\ mGet = [t \in Threads |-> None] /\ mKeys = [t \in Threads |-> EmptyVec]
    /\ mShard = [t \in Threads |-> 0]
    /\ latest = [k \in Keys |-> 0] /\ ovl = [k \in Keys |-> {}]
    /\ seen = [t \in Threads |-> {}] /\ hStart = [t \in Threads |-> {}]
    /\ hQuiet = [t \in Threads |-> FALSE] /\ hSnaps = [t \in Threads |-> {}]
    /\ hConc = FALSE
    /\ focus = "None" /\ range = 0 /\ prior_writes = 0
    /\ writes_per_second = 0 /\ reads_per_second = 0 /\ cheap_reads = FALSE
    /\ cMap = {} /\ cPc = "parked" /\ cI = 0
    /\ writer_handles = <<>> /\ reader_handles = <<>>
    /\ wPc = [i \in Subtasks |-> "parked"] /\ wJ = [i \in Subtasks |-> 0]
    /\ wRounds = [i \in Subtasks |-> 0]
    /\ rPc = [i \in Subtasks |-> "parked"] /\ rJ = [i \in Subtasks |-> 0]
    /\ rRounds = [i \in Subtasks |-> 0]
    /\ wwPc = "parked" /\ wwI = 0 /\ rwPc = "parked" /\ rwI = 0
    /\ clock = 0 /\ pacer = [kind \in Kinds |-> NoPacer]

InitNext ==
    \/ InitLoopBody /\ UNCHANGED <<gapVars, mapVars, histVars, contVars, pacerVars>>
    \/ InitLoopExit /\ UNCHANGED <<gapVars, mapVars, histVars, contVars, pacerVars>>
    \/ InitDrop /\ UNCHANGED <<gapVars, mapVars, histVars, contVars, pacerVars>>

SpecInit == InitInit /\ [][InitNext]_vars

\* A new, empty map of either backend (lib.rs 14-20), shared by the caller
\* threads, none of which has called anything yet.  The seed matters to
\* DashMap alone.
MapInit ==
    /\ backend \in Backends
    /\ seed \in Seeds
    /\ backend = "RwLockHashMap" => seed = 0
    /\ table = [k \in Keys |-> Absent]
    /\ lockW = [s \in ShardIds |-> 0]
    /\ lockR = [s \in ShardIds |-> {}]
    /\ mPc = [t \in Threads |-> "idle"]
    /\ mArg = [t \in Threads |-> NoArg]
    /\ mGet = [t \in Threads |-> None]
    /\ mKeys = [t \in Threads |-> EmptyVec]
    /\ mShard = [t \in Threads |-> 0]
    /\ latest = [k \in Keys |-> 0]
    /\ ovl = [k \in Keys |-> {}]
    /\ seen = [t \in Threads |-> {}]
    /\ hStart = [t \in Threads |-> {}]
    /\ hQuiet = [t \in Threads |-> FALSE]
    /\ hSnaps = [t \in Threads |-> {}]
    /\ hConc = FALSE
    /\ gThreads = 0 /\ gRate = 0 /\ gResult = None /\ gPc = "parked"
    /\ iEntries = 0 /\ iAve = 0 /\ iPc = "parked" /\ iI = 0 /\ iInner = {}
    /\ iSample = 0
    /\ dmKeys = {} /\ dmInner = {} /\ iPeak = 0 /\ iReports = 0
    /\ iLastPct = 0
    /\ focus = "None" /\ range = 0 /\ prior_writes = 0
    /\ writes_per_second = 0 /\ reads_per_second = 0 /\ cheap_reads = FALSE
    /\ cMap = {} /\ cPc = "parked" /\ cI = 0
    /\ writer_handles = <<>> /\ reader_handles = <<>>
    /\ wPc = [i \in Subtasks |-> "parked"] /\ wJ = [i \in Subtasks |-> 0]
    /\ wRounds = [i \in Subtasks |-> 0]
    /\ rPc = [i \in Subtasks |-> "parked"] /\ rJ = [i \in Subtasks |-> 0]
    /\ rRounds = [i \in Subtasks |-> 0]
    /\ wwPc = "parked" /\ wwI = 0 /\ rwPc = "parked" /\ rwI = 0
    /\ clock = 0 /\ pacer = [kind \in Kinds |-> NoPacer]

MapNext ==
    \/ \E t \in Threads, k \in Keys, v \in Vals :
          InsertCall(t, k, v) /\ UNCHANGED <<gapVars, initVars, contVars, pacerVars>>
    \/ \E t \in Threads : InsertLock(t) /\ UNCHANGED <<gapVars, initVars, contVars, pacerVars>>
    \/ \E t \in Threads : InsertUnlock(t) /\ UNCHANGED <<gapVars, initVars, contVars, pacerVars>>
    \/ \E t \in Threads : InsertReturn(t) /\ UNCHANGED <<gapVars, initVars, contVars, pacerVars>>
    \/ \E t \in Threads, k \in Keys :
          GetCall(t, k) /\ UNCHANGED <<gapVars, initVars, contVars, pacerVars>>
    \/ \E t \in Threads : GetLock(t) /\ UNCHANGED <<gapVars, initVars, contVars, pacerVars>>
    \/ \E t \in Threads : GetMiss(t) /\ UNCHANGED <<gapVars, initVars, contVars, pacerVars>>
    \/ \E t \in Threads : HandleDrop(t) /\ UNCHANGED <<gapVars, initVars, contVars, pacerVars>>
    \/ \E t \in Threads : KeysCall(t) /\ UNCHANGED <<gapVars, initVars, contVars, pacerVars>>
    \/ \E t \in Threads : KeysLock(t) /\ UNCHANGED <<gapVars, initVars, contVars, pacerVars>>
    \/ \E t \in Threads : KeysUnlock(t) /\ UNCHANGED <<gapVars, initVars, contVars, pacerVars>>

SpecMap == MapInit /\ [][MapNext]_vars

\* test_contention is entered with arguments drawn from the inputs and a
\* new, empty map; nothing is spawned yet (lib.rs 69-86).
ContInit ==
    /\ focus \in FocusInputs
    /\ range \in 0..MaxRange
    /\ prior_writes \in 0..MaxPrior
    /\ writes_per_second \in RateInputs
    /\ reads_per_second \in RateInputs
    /\ cheap_reads \in BOOLEAN
    /\ cMap = {}
    /\ cPc = "setup"
    /\ cI = 0
    /\ writer_handles = <<>>
    /\ reader_handles = <<>>
    /\ wPc = [i \in Subtasks |-> "unspawned"]
    /\ wJ = [i \in Subtasks |-> 0]
    /\ wRounds = [i \in Subtasks |-> 0]
    /\ rPc = [i \in Subtasks |-> "unspawned"]
    /\ rJ = [i \in Subtasks |-> 0]
    /\ rRounds = [i \in Subtasks |-> 0]
    /\ wwPc = "unspawned"
    /\ wwI = 0
    /\ rwPc = "unspawned"
    /\ rwI = 0
    /\ gThreads = 0 /\ gRate = 0 /\ gResult = None /\ gPc = "parked"
    /\ iEntries = 0 /\ iAve = 0 /\ iPc = "parked" /\ iI = 0 /\ iInner = {}
    /\ iSample = 0
    /\ dmKeys = {} /\ dmInner = {} /\ iPeak = 0 /\ iReports = 0
    /\ iLastPct = 0
    /\ backend = "parked" /\ seed = 0 /\ table = [k \in Keys |-> Absent]
    /\ lockW = [s \in ShardIds |-> 0] /\ lockR = [s \in ShardIds |-> {}]
    /\ mPc = [t \in Threads |-> "parked"] /\ mArg = [t \in Threads |-> NoArg]
    /\ mGet = [t \in Threads |-> None] /\ mKeys = [t \in Threads |-> EmptyVec]
    /\ mShard = [t \in Threads |-> 0]
    /\ latest = [k \in Keys |-> 0] /\ ovl = [k \in Keys |-> {}]
    /\ seen = [t \in Threads |-> {}] /\ hStart = [t \in Threads |-> {}]
    /\ hQuiet = [t \in Threads |-> FALSE] /\ hSnaps = [t \in Threads |-> {}]
    /\ hConc = FALSE
    /\ clock = 0 /\ pacer = [kind \in Kinds |-> NoPacer]

ContNext ==
    \/ PriorWrite
         /\ UNCHANGED <<gapVars, initVars, mapVars, histVars, pacerVars>>
    \/ SetupDone
         /\ UNCHANGED <<gapVars, initVars, mapVars, histVars, pacerVars>>
    \/ SpawnWriter
         /\ UNCHANGED <<gapVars, initVars, mapVars, histVars, pacerVars>>
    \/ SpawnReader
         /\ UNCHANGED <<gapVars, initVars, mapVars, histVars, pacerVars>>
    \/ SpawnWaiters
         /\ UNCHANGED <<gapVars, initVars, mapVars, histVars, pacerVars>>
    \/ JoinWriteWaiter
         /\ UNCHANGED <<gapVars, initVars, mapVars, histVars, pacerVars>>
    \/ JoinReadWaiter
         /\ UNCHANGED <<gapVars, initVars, mapVars, histVars, pacerVars>>
    \/ \E i \in Subtasks : WriterPace(i)
         /\ UNCHANGED <<gapVars, initVars, mapVars, histVars, pacerVars>>
    \/ \E i \in Subtasks : WriterWake(i)
         /\ UNCHANGED <<gapVars, initVars, mapVars, histVars, pacerVars>>
    \/ \E i \in Subtasks : WriterInsert(i)
         /\ UNCHANGED <<gapVars, initVars, mapVars, histVars, pacerVars>>
    \/ \E i \in Subtasks : WriterBatchEnd(i)
         /\ UNCHANGED <<gapVars, initVars, mapVars, histVars, pacerVars>>
    \/ \E i \in Subtasks : ReaderPace(i)
         /\ UNCHANGED <<gapVars, initVars, mapVars, histVars, pacerVars>>
    \/ \E i \in Subtasks : ReaderWake(i)
         /\ UNCHANGED <<gapVars, initVars, mapVars, histVars, pacerVars>>
    \/ \E i \in Subtasks : ReaderRead(i)
         /\ UNCHANGED <<gapVars, initVars, mapVars, histVars, pacerVars>>
    \/ \E i \in Subtasks : ReaderBatchEnd(i)
         /\ UNCHANGED <<gapVars, initVars, mapVars, histVars, pacerVars>>
    \/ WriteWaiterJoin
         /\ UNCHANGED <<gapVars, initVars, mapVars, histVars, pacerVars>>
    \/ WriteWaiterReport
         /\ UNCHANGED <<gapVars, initVars, mapVars, histVars, pacerVars>>
    \/ ReadWaiterJoin
         /\ UNCHANGED <<gapVars, initVars, mapVars, histVars, pacerVars>>
    \/ ReadWaiterReport
         /\ UNCHANGED <<gapVars, initVars, mapVars, histVars, pacerVars>>

SpecCont == ContInit /\ [][ContNext]_vars

\* The operating system's scheduler runs every thread that can take a step,
\* and a sleep ends.
ContFairness ==
    /\ WF_contVars(MainStep)
    /\ \A i \in Subtasks :
          WF_contVars(WriterStep(i)) /\ WF_contVars(ReaderStep(i))
    /\ WF_contVars(WriteWaiterStep)
    /\ WF_contVars(ReadWaiterStep)

FairCont == SpecCont /\ ContFairness

\* A writer and a reader thread have been spawned by test_contention with a
\* rate that is not 0 each; neither has run yet.
PacerInit ==
    /\ focus \in FocusInputs
    /\ writes_per_second \in PacerRates
    /\ reads_per_second \in PacerRates
    /\ range = 0 /\ prior_writes = 0 /\ cheap_reads = FALSE
    /\ clock \in {0, 1}
    /\ pacer = [kind \in Kinds |-> [NoPacer EXCEPT !.pc = "spawned"]]
    /\ gThreads = 0 /\ gRate = 0 /\ gResult = None /\ gPc = "parked"
    /\ iEntries = 0 /\ iAve = 0 /\ iPc = "parked" /\ iI = 0 /\ iInner = {}
    /\ iSample = 0
    /\ dmKeys = {} /\ dmInner = {} /\ iPeak = 0 /\ iReports = 0
    /\ iLastPct = 0
    /\ backend = "parked" /\ seed = 0 /\ table = [k \in Keys |-> Absent]
    /\ lockW = [s \in ShardIds |-> 0] /\ lockR = [s \in ShardIds |-> {}]
    /\ mPc = [t \in Threads |-> "parked"] /\ mArg = [t \in Threads |-> NoArg]
    /\ mGet = [t \in Threads |-> None] /\ mKeys = [t \in Threads |-> EmptyVec]
    /\ mShard = [t \in Threads |-> 0]
    /\ latest = [k \in Keys |-> 0] /\ ovl = [k \in Keys |-> {}]
    /\ seen = [t \in Threads |-> {}] /\ hStart = [t \in Threads |-> {}]
    /\ hQuiet = [t \in Threads |-> FALSE] /\ hSnaps = [t \in Threads |-> {}]
    /\ hConc = FALSE
    /\ cMap = {} /\ cPc = "parked" /\ cI = 0
    /\ writer_handles = <<>> /\ reader_handles = <<>>
    /\ wPc = [i \in Subtasks |-> "parked"] /\ wJ = [i \in Subtasks |-> 0]
    /\ wRounds = [i \in Subtasks |-> 0]
    /\ rPc = [i \in Subtasks |-> "parked"] /\ rJ = [i \in Subtasks |-> 0]
    /\ rRounds = [i \in Subtasks |-> 0]
    /\ wwPc = "parked" /\ wwI = 0 /\ rwPc = "parked" /\ rwI = 0

PacerOthers ==
    <<gapVars, initVars, mapVars, histVars, cMap, cPc, cI, writer_handles,
      reader_handles, wPc, wJ, wRounds, rPc, rJ, rRounds, wwPc, wwI, rwPc,
      rwI>>

PacerNext ==
    \/ \E kind \in Kinds : PacerStart(kind) /\ UNCHANGED PacerOthers
    \/ \E kind \in Kinds : PacerPace(kind) /\ UNCHANGED PacerOthers
    \/ \E kind \in Kinds : PacerWake(kind) /\ UNCHANGED PacerOthers
    \/ \E kind \in Kinds : PacerOp(kind) /\ UNCHANGED PacerOthers
    \/ \E kind \in Kinds : PacerBatchEnd(kind) /\ UNCHANGED PacerOthers
    \/ Tick /\ UNCHANGED PacerOthers

SpecPacer == PacerInit /\ [][PacerNext]_vars

(***************************************************************************)
(* C1: gap_nanos(threads, rate) returns None when rate = 0, for every      *)
(* threads; for threads > 0 and rate > 0 it returns Some(g) where g is     *)
(* the floor of threads * 10^9 / rate, i.e. g * rate <= threads * 10^9 <   *)
(* (g + 1) * rate.                                                         *)
(***************************************************************************)
C1_GapNanos ==
    gPc = "returned" =>
        /\ gRate = 0 => gResult = None
        /\ (gThreads > 0 /\ gRate > 0) =>
              /\ gResult.tag = "Some"
              /\ gResult.val * gRate <= gThreads * NanosPerSec
              /\ gThreads * NanosPerSec < gResult.val * gRate + gRate

C1_Witness ==
    /\ gPc = "returned"
    /\ gThreads = 2
    /\ gRate = 7
    /\ gResult = Some(285714285)

(***************************************************************************)
(* C2 (as claimed): once an insert of k has returned, a get(k) called      *)
(* afterwards returns the value of the insert of k that returned last.     *)
(* Stated for the plainest case: no insert of k is running when the get    *)
(* is called, and none is called while it runs.                            *)
(***************************************************************************)
C2_GetLatestCompleted ==
    \A t \in Threads :
        (/\ mPc[t] \in {"handle", "get_miss"}
         /\ mArg[t].k \in hStart[t]
         /\ hQuiet[t])
        => mGet[t] = Some(latest[mArg[t].k])

(***************************************************************************)
(* C2 (amended): once an insert of k has returned, a get(k) called         *)
(* afterwards returns a present value: that of the insert of k that        *)
(* returned last, or of an insert of k that returned while that one was    *)
(* running, or of an insert of k still running; so it is the value of the  *)
(* last returned insert when that insert overlapped no other and none is   *)
(* running.  A keys() called afterwards contains k.                        *)
(***************************************************************************)
C2_InsertVisible ==
    /\ \A t \in Threads :
          mPc[t] \in {"handle", "get_miss"} =>
             LET k == mArg[t].k
             IN  /\ k \in hStart[t] => mGet[t] # None
                 /\ mGet[t] # None =>
                       mGet[t].val \in
                          ({latest[k]} \cup ovl[k]
                             \cup {mArg[u].v : u \in InsertingKey(k)})
                 /\ (k \in hStart[t] /\ hQuiet[t] /\ ovl[k] = {}) =>
                       mGet[t] = Some(latest[k])
    /\ \A t \in Threads :
          mPc[t] = "keys_unlock" => hStart[t] \subseteq VecSet(mKeys[t])

\* A get called in a quiet moment holds a handle to the value of an insert
\* that overlapped the one that returned last.
C2_Witness ==
    \E t \in Threads :
        /\ mPc[t] = "handle"
        /\ mArg[t].k \in hStart[t]
        /\ hQuiet[t]
        /\ mGet[t].val # latest[mArg[t].k]
        /\ mGet[t].val \in ovl[mArg[t].k]

(***************************************************************************)
(* C3: when keys() runs after every insert has returned (no insert is      *)
(* running from its call on), the Vec it returns holds exactly the         *)
(* inserted keys, each once: none missing, none twice, nothing else.       *)
(***************************************************************************)
C3_KeysExact ==
    \A t \in Threads :
        (mPc[t] = "keys_unlock" /\ hQuiet[t]) =>
            mKeys[t] = [k \in Keys |-> IF latest[k] # 0 THEN 1 ELSE 0]

\* Two threads have had inserts of different keys running at once, every
\* insert has returned, and keys() has collected every key.
C3_Witness ==
    \E t \in Threads :
        /\ mPc[t] = "keys_unlock"
        /\ hQuiet[t]
        /\ hConc
        /\ VecSet(mKeys[t]) = Keys
        /\ \A k \in Keys : latest[k] # 0

(***************************************************************************)
(* C4: an insert of a key that is present replaces its value and leaves    *)
(* the key set as it was; keys() never holds a key twice, and after the    *)
(* inserts have returned its length is the number of keys of the table.    *)
(***************************************************************************)
VecLen(vec) == LET S[n \in 0..(MaxKey + 1)] ==
                      IF n = 0 THEN 0 ELSE S[n - 1] + vec[n - 1]
               IN  S[MaxKey + 1]

C4_ReinsertReplaces ==
    /\ [][\A t \in Threads :
            (/\ mPc[t] = "ins_lock"
             /\ mPc'[t] = "ins_unlock"
             /\ table[mArg[t].k] # Absent)
            => /\ table'[mArg[t].k] = mArg[t].v
               /\ KeySet(table') = KeySet(table)
               /\ \A j \in Keys \ {mArg[t].k} : table'[j] = table[j]]_vars
    /\ [](\A t \in Threads :
            /\ \A k \in Keys : mKeys[t][k] <= 1
            /\ (mPc[t] = "keys_unlock" /\ hQuiet[t]) =>
                  VecLen(mKeys[t]) = Cardinality(KeySet(table)))

\* The only running insert has just overwritten the value of the insert
\* that returned last with another value.
C4_Witness ==
    \E t \in Threads :
        /\ mPc[t] = "ins_unlock"
        /\ Inserting = {t}
        /\ latest[mArg[t].k] # 0
        /\ ovl[mArg[t].k] = {}
        /\ latest[mArg[t].k] # mArg[t].v
        /\ table[mArg[t].k] = mArg[t].v

(***************************************************************************)
(* C5 (as claimed): the keys that keys() returns are the table's key set   *)
(* at one instant between the call and the return.                         *)
(***************************************************************************)
C5_KeysSnapshot ==
    \A t \in Threads :
        mPc[t] = "keys_unlock" => VecSet(mKeys[t]) \in hSnaps[t]

(***************************************************************************)
(* C5 (amended): shard by shard, the keys that keys() returns from a       *)
(* shard are that shard's key set at one instant between the call and the  *)
(* return.  RwLock<HashMap> is one table, so its keys() is a point-in-time *)
(* snapshot; DashMap's shards are read at different instants, so its       *)
(* keys() holds every key present at the call, only keys present at the    *)
(* return, and each once.                                                  *)
(***************************************************************************)
C5_KeysPerShardSnapshot ==
    \A t \in Threads :
        mPc[t] = "keys_unlock" =>
            LET got == VecSet(mKeys[t])
            IN  /\ \A sh \in 0..(NumShards - 1) :
                      \E S \in hSnaps[t] :
                          {k \in got : ShardOf(k) = sh}
                             = {k \in S : ShardOf(k) = sh}
                /\ \A S \in hSnaps[t] : S \subseteq KeySet(table)
                /\ \E S \in hSnaps[t] : S \subseteq got
                /\ got \subseteq KeySet(table)
                /\ \A k \in Keys : mKeys[t][k] <= 1
                /\ backend = "RwLockHashMap" => got \in hSnaps[t]

\* DashMap's keys() has collected a set of keys that the table never had.
C5_Witness ==
    \E t \in Threads :
        /\ backend = "DashMap"
        /\ mPc[t] = "keys_unlock"
        /\ VecSet(mKeys[t]) \notin hSnaps[t]

(***************************************************************************)
(* C6: with focus = None every spawned writer and reader runs its batch    *)
(* exactly once and exits; a join supervisor reports only after every      *)
(* sub-task of its kind has exited; test_contention returns only after     *)
(* both supervisors have reported; and, the scheduler being fair, it       *)
(* does return, with every spawned sub-task exited.                        *)
(***************************************************************************)
WritersSpawned == {writer_handles[n] : n \in 1..Len(writer_handles)}
ReadersSpawned == {reader_handles[n] : n \in 1..Len(reader_handles)}

C6_FocusNoneCompletes ==
    /\ [](focus = "None" =>
            /\ \A i \in Subtasks :
                  /\ wRounds[i] <= 1
                  /\ rRounds[i] <= 1
                  /\ wPc[i] = "exited" =>
                        wRounds[i] = 1 /\ wJ[i] = Batch(writes_per_second)
                  /\ rPc[i] = "exited" =>
                        rRounds[i] = 1 /\ rJ[i] = Batch(reads_per_second)
            /\ wwPc = "reported" =>
                  /\ writes_per_second > 0 => WritersSpawned = Subtasks
                  /\ \A i \in WritersSpawned : wPc[i] = "exited"
            /\ rwPc = "reported" =>
                  /\ reads_per_second > 0 => ReadersSpawned = Subtasks
                  /\ \A i \in ReadersSpawned : rPc[i] = "exited"
            /\ cPc = "returned" => wwPc = "reported" /\ rwPc = "reported")
    /\ <>[](focus = "None" =>
              /\ cPc = "returned"
              /\ \A i \in WritersSpawned : wPc[i] = "exited"
              /\ \A i \in ReadersSpawned : rPc[i] = "exited")

\* test_contention has returned with focus = None after two writers and two
\* readers each ran a batch of one operation.
C6_Witness ==
    /\ focus = "None"
    /\ cPc = "returned"
    /\ WritersSpawned = Subtasks
    /\ ReadersSpawned = Subtasks
    /\ \A i \in Subtasks : wJ[i] = 1 /\ rJ[i] = 1 /\ wPc[i] = "exited"

(***************************************************************************)
(* C7: with focus = Read, the scheduler being fair, test_contention        *)
(* returns; by then every reader has run its batch once and exited and     *)
(* the reader supervisor has reported; no writer ever exits, the writer    *)
(* supervisor (when there are writers) never gets past its first join,     *)
(* never reports, and is not waited for.                                   *)
(***************************************************************************)
C7_FocusReadReturns ==
    /\ [](focus = "Read" =>
            /\ cPc = "returned" =>
                  /\ rwPc = "reported"
                  /\ reads_per_second > 0 => ReadersSpawned = Subtasks
                  /\ \A i \in ReadersSpawned :
                        rPc[i] = "exited" /\ rRounds[i] = 1
            /\ \A i \in Subtasks : wPc[i] # "exited"
            /\ writes_per_second > 0 => wwPc # "reported" /\ wwI = 0
            /\ cPc = "join_write" => ENABLED JoinWriteWaiter)
    /\ <>[](focus = "Read" => cPc = "returned")

\* test_contention has returned with focus = Read while the writers are
\* still running and the writer supervisor is still joining the first.
C7_Witness ==
    /\ focus = "Read"
    /\ cPc = "returned"
    /\ ReadersSpawned = Subtasks
    /\ WritersSpawned = Subtasks
    /\ wwPc = "joining"
    /\ \E i \in Subtasks : wPc[i] = "op"

(***************************************************************************)
(* C8: the focus state machine.  With focus = Read no writer ever exits    *)
(* and each repeats its batch forever, while a reader runs its batch once  *)
(* and exits; with focus = Write the roles are swapped.  The calling       *)
(* thread does not wait for the supervisor of the kind that is not the     *)
(* focus, and no thread of that kind is ever joined.                       *)
(***************************************************************************)
FocusRoles ==
    /\ [](focus = "Read" =>
            \A i \in Subtasks :
               /\ wPc[i] # "exited"
               /\ rRounds[i] <= 1
               /\ wwI = 0)
    /\ [](focus = "Write" =>
            \A i \in Subtasks :
               /\ rPc[i] # "exited"
               /\ wRounds[i] <= 1
               /\ rwI = 0)
    /\ <>[](/\ focus # "None" => cPc = "returned"
            /\ focus = "Read" =>
                  /\ \A i \in ReadersSpawned : rPc[i] = "exited"
                  /\ reads_per_second > 0 => ReadersSpawned = Subtasks
                  /\ writes_per_second > 0 =>
                        \A i \in Subtasks : wRounds[i] = MaxRounds
            /\ focus = "Write" =>
                  /\ \A i \in WritersSpawned : wPc[i] = "exited"
                  /\ writes_per_second > 0 => WritersSpawned = Subtasks
                  /\ reads_per_second > 0 =>
                        \A i \in Subtasks : rRounds[i] = MaxRounds)
    /\ \A i \in Subtasks :
          /\ []<>((focus = "Read" /\ writes_per_second > 0) =>
                    (wPc[i] = "batch" /\ wJ[i] = 0))
          /\ []<>((focus = "Read" /\ writes_per_second > 0) =>
                    (wPc[i] = "batch" /\ wJ[i] = Batch(writes_per_second)))
          /\ []<>((focus = "Write" /\ reads_per_second > 0) =>
                    (rPc[i] = "batch" /\ rJ[i] = 0))
          /\ []<>((focus = "Write" /\ reads_per_second > 0) =>
                    (rPc[i] = "batch" /\ rJ[i] = Batch(reads_per_second)))

\* C8 (as claimed): ... and the supervisor of the kind that is not the
\* focus never reports completion.
C8_FocusStateMachine ==
    /\ FocusRoles
    /\ [](focus = "Read" => wwPc # "reported")
    /\ [](focus = "Write" => rwPc # "reported")

\* C8 (amended): ... and the supervisor of the kind that is not the focus
\* never reports completion when that kind has sub-tasks (its rate is not
\* 0); with a rate of 0 it has nothing to join and reports at once.
C8_FocusStateMachineSpawned ==
    /\ FocusRoles
    /\ [](focus = "Read" =>
            IF writes_per_second > 0
            THEN wwPc # "reported"
            ELSE wwPc \in {"unspawned", "joining", "reported"} /\ wwI = 0)
    /\ [](focus = "Write" =>
            IF reads_per_second > 0
            THEN rwPc # "reported"
            ELSE rwPc \in {"unspawned", "joining", "reported"} /\ rwI = 0)
    /\ <>[](/\ (focus = "Read" /\ writes_per_second = 0) => wwPc = "reported"
            /\ (focus = "Write" /\ reads_per_second = 0) => rwPc = "reported")

\* With focus = Write the writers have exited and test_contention has
\* returned, while a reader is in a later batch and the reader supervisor
\* still waits.
C8_Witness ==
    /\ focus = "Write"
    /\ cPc = "returned"
    /\ \A i \in Subtasks : wPc[i] = "exited" /\ wRounds[i] = 1
    /\ \E i \in Subtasks : rRounds[i] = MaxRounds /\ rPc[i] = "sleep"
    /\ rwPc = "joining"
    /\ wwPc = "reported"

(***************************************************************************)
(* C9: in every state of test_contention every key of the shared map lies  *)
(* in 0..=range, so the map never has more than range + 1 keys.            *)
(***************************************************************************)
C9_KeysInRange ==
    /\ cMap \subseteq 0..range
    /\ Cardinality(cMap) <= range + 1

\* test_contention has returned, the writers go on, and the map holds every
\* key of 0..=range.
C9_Witness ==
    /\ cPc = "returned"
    /\ focus = "Read"
    /\ range = MaxRange
    /\ cMap = 0..range
    /\ \E i \in Subtasks : wRounds[i] = MaxRounds

(***************************************************************************)
(* C11: with ave_inner_items = 0 and entries >= 100, when the construction *)
(* loop of test_init_many_maps has ended the outer map's keys are exactly  *)
(* 0 .. entries-1 (entries of them) and every inner map stored is empty.   *)
(***************************************************************************)
C11_EmptyInnerMaps ==
    (iAve = 0 /\ iEntries >= 100 /\ iPc = "dropping") =>
        /\ dmKeys = 0..(iEntries - 1)
        /\ Cardinality(dmKeys) = iEntries
        /\ dmInner = {{}}

\* The loop has ended for entries = MaxEntries and ave_inner_items = 0.
C11_Witness ==
    /\ iAve = 0
    /\ iEntries = MaxEntries
    /\ iPc = "dropping"
    /\ iI = MaxEntries
    /\ Cardinality(dmKeys) = MaxEntries

(***************************************************************************)
(* C12: with ave_inner_items # 0, an iteration whose sample is negative    *)
(* inserts nothing into its inner map, an iteration whose sample truncates *)
(* to the count c >= 0 leaves the inner map with the keys 0 .. c-1, every  *)
(* inner map stored in the outer map has that shape, and when the loop has *)
(* ended the outer map's keys are exactly 0 .. entries-1.                  *)
(***************************************************************************)
C12_NegativeSampleClamped ==
    iAve # 0 =>
        /\ iSample < 0 => iInner = {}
        /\ iSample >= 0 =>
              /\ iInner = 0..((iSample \div 2) - 1)
              /\ Cardinality(iInner) = iSample \div 2
        /\ \A m \in dmInner : \E c \in 0..MaxSample : m = 0..(c - 1)
        /\ iPc = "dropping" =>
              /\ dmKeys = 0..(iEntries - 1)
              /\ Cardinality(dmKeys) = iEntries

\* The loop has ended for entries = 100 with ave_inner_items # 0; the last
\* sample was negative and its inner map is empty, and an earlier inner map
\* holds MaxSample keys.
C12_Witness ==
    /\ iAve # 0
    /\ iEntries = 100
    /\ iPc = "dropping"
    /\ iSample < 0
    /\ iInner = {}
    /\ (0..(MaxSample - 1)) \in dmInner
    /\ Cardinality(dmKeys) = 100

(***************************************************************************)
(* C13: in one batch a sub-task performs exactly floor(rate / threads_each)*)
(* operations: its count of operations goes up by one at a time, never     *)
(* passes that number, and the batch ends (the sub-task exits or starts    *)
(* over) only at that number.  With focus = None the operations of a kind  *)
(* total threads_each * floor(rate / threads_each) <= rate, the remainder  *)
(* rate mod threads_each being dropped; with 0 < rate < threads_each the   *)
(* sub-tasks are spawned and perform no operation.                         *)
(***************************************************************************)
RECURSIVE SumOver(_, _)
SumOver(f, S) ==
    IF S = {} THEN 0
    ELSE LET x == CHOOSE y \in S : TRUE IN f[x] + SumOver(f, S \ {x})

FanOut(rate, pc, j) ==
    LET b == rate \div threads_each IN
    /\ b * threads_each <= rate
    /\ rate < (b + 1) * threads_each
    /\ \A i \in Subtasks :
          /\ j[i] <= b
          /\ pc[i] \in {"sleep", "op"} => j[i] < b
          /\ pc[i] = "exited" => j[i] = b
          /\ (0 < rate /\ rate < threads_each) => j[i] = 0
    /\ (focus = "None" /\ cPc = "returned") =>
          /\ \A i \in Subtasks : rate > 0 <=> pc[i] = "exited"
          /\ SumOver(j, Subtasks) = threads_each * b
          /\ SumOver(j, Subtasks) <= rate
          /\ rate - SumOver(j, Subtasks) = rate % threads_each

FanOutStep(rate, pc, j, pcNext, jNext) ==
    LET b == rate \div threads_each IN
    \A i \in Subtasks :
       /\ jNext[i] # j[i] =>
             \/ jNext[i] = j[i] + 1 /\ pc[i] = "op"
             \/ jNext[i] = 0 /\ j[i] = b /\ pc[i] = "batch"
       /\ (pcNext[i] = "exited" /\ pc[i] # "exited") => j[i] = b

NoSubtask ==
    /\ writer_handles = <<>>
    /\ reader_handles = <<>>
    /\ \A i \in Subtasks : wPc[i] = "unspawned" /\ rPc[i] = "unspawned"
    /\ wwPc = "unspawned"
    /\ rwPc = "unspawned"

SpawnedExactly(rate, handles, pc) ==
    /\ Len(handles) = (IF rate > 0 THEN threads_each ELSE 0)
    /\ \A n, m \in 1..Len(handles) : handles[n] = handles[m] => n = m
    /\ \A i \in Subtasks : rate > 0 <=> pc[i] # "unspawned"

C17_PhaseStructure ==
    /\ [](cPc = "setup" =>
            /\ NoSubtask
            /\ cI <= prior_writes
            /\ Cardinality(cMap) <= cI)
    /\ [][(cPc = "setup" /\ cPc' # "setup") =>
            (cI = prior_writes /\ NoSubtask /\ NoSubtask')]_vars
    /\ [][(cPc # "setup") => (cPc' # "setup")]_vars
    /\ [](/\ Len(writer_handles) <= threads_each
          /\ Len(reader_handles) <= threads_each
          /\ writes_per_second = 0 => writer_handles = <<>>
          /\ reads_per_second = 0 => reader_handles = <<>>)
    /\ [](cPc \in {"join_write", "join_read", "returned"} =>
            /\ SpawnedExactly(writes_per_second, writer_handles, wPc)
            /\ SpawnedExactly(reads_per_second, reader_handles, rPc))

\* After MaxPrior prior writes the spawn loop has run with writes_per_second
\* = 0 and reads_per_second > 0: threads_each readers and no writer.
C17_Witness ==
    /\ cPc = "join_write"
    /\ prior_writes = MaxPrior
    /\ cMap # {}
    /\ writes_per_second = 0
    /\ reads_per_second = MaxRate
    /\ Len(reader_handles) = threads_each
    /\ writer_handles = <<>>

(***************************************************************************)
(* C19: a reader's get or keys() leaves the shared map as it was; the key  *)
(* set of the map changes only in a setup insert of the calling thread or  *)
(* in a writer's insert, and then only by gaining a key: no key is ever    *)
(* removed, in any phase, including after test_contention has returned.    *)
(***************************************************************************)
ReaderActs(i) == rPc[i] = "op" /\ rJ'[i] = rJ[i] + 1

WriterActs(i) == wPc[i] = "op" /\ wJ'[i] = wJ[i] + 1

SetupActs == cPc = "setup" /\ cI' = cI + 1

C19_ReadersLeaveMap ==
    /\ [][\A i \in Subtasks : ReaderActs(i) => cMap' = cMap]_vars
    /\ [][cMap \subseteq cMap']_vars
    /\ [][cMap' # cMap =>
            /\ Cardinality(cMap') = Cardinality(cMap) + 1
            /\ SetupActs \/ \E i \in Subtasks : WriterActs(i)]_vars
    /\ [][(cMap' # cMap /\ cPc = "returned") =>
            (focus = "Read" /\ \E i \in Subtasks : WriterActs(i))]_vars

\* test_contention has returned with focus = Read; the readers have each
\* done a keys() and exited, the writers are in a later batch, and the map
\* has gained every key.
C19_Witness ==
    /\ cPc = "returned"
    /\ focus = "Read"
    /\ ~cheap_reads
    /\ prior_writes = 0
    /\ \A i \in Subtasks : rPc[i] = "exited" /\ rJ[i] = 1
    /\ \E i \in Subtasks : wRounds[i] >= 1 /\ wPc[i] = "op"
    /\ cMap = 0..MaxRange
    /\ range = MaxRange

(***************************************************************************)
(* C16: on the single-lock backend at most one insert is inside its        *)
(* critical section, and none is while a get holds its guard (a live       *)
(* handle, or a miss not yet returned) or a keys() enumeration is under    *)
(* way; a live handle holds the read lock.  Readers exclude only writers:  *)
(* the witness has two handles live at once.                               *)
(***************************************************************************)
InCritical == {t \in Threads : mPc[t] = "ins_unlock"}

ReadGuards == {t \in Threads : mPc[t] \in {"handle", "get_miss", "keys_unlock"}}

C16_SingleLockExclusion ==
    backend = "RwLockHashMap" =>
        /\ Cardinality(InCritical) <= 1
        /\ InCritical # {} => ReadGuards = {}
        /\ \A t \in InCritical : lockW[0] = t /\ lockR[0] = {}
        /\ \A t \in Threads :
              mPc[t] = "handle" => (t \in lockR[0] /\ lockW[0] = 0)
        /\ \A t \in ReadGuards : t \in lockR[0]

\* Two handles returned by get are live at once on the single-lock backend
\* while the map holds both keys.
C16_Witness ==
    /\ backend = "RwLockHashMap"
    /\ \A t \in Threads : mPc[t] = "handle"
    /\ Cardinality(lockR[0]) = NThreads
    /\ \E t, u \in Threads : mArg[t].k # mArg[u].k

(***************************************************************************)
(* C18: for entries >= 100 a run of test_init_many_maps makes 100 progress *)
(* reports; the reported percentages increase from one report to the next *)
(* and stay within 0..=100, and the reported peak memory never decreases.  *)
(***************************************************************************)
C18_ProgressReports ==
    /\ [](iEntries >= 100 =>
            /\ iReports <= 100
            /\ iLastPct \in 0..100
            /\ iPc = "dropping" => iReports = 100)
    /\ [][(iEntries >= 100 /\ iReports' # iReports) =>
            /\ iReports' = iReports + 1
            /\ iReports > 0 => iLastPct' > iLastPct
            /\ iPeak' >= iPeak]_vars
    /\ [][iPeak' >= iPeak]_vars

(***************************************************************************)
(* C14: a sub-task's next is the clock's value at the start of its thread; *)
(* it changes only in a step of that sub-task, namely when an operation    *)
(* is done, and then by exactly the gap, whatever the clock shows; so it   *)
(* equals start + k * gap after k operations, never decreases, and stays   *)
(* as it is when a batch is started again.                                 *)
(***************************************************************************)
C14_PacerNextFire ==
    /\ [](\A kind \in Kinds :
            LET p == pacer[kind] IN
            p.pc # "spawned" => p.next = p.start + p.ops * GapOf(kind))
    /\ [][\A kind \in Kinds :
            LET p == pacer[kind]
                q == pacer'[kind]
            IN  /\ (p.pc = "spawned" /\ q.pc # "spawned") =>
                      (q.start = clock /\ q.next = clock /\ q.ops = 0)
                /\ q.next >= p.next
                /\ (p.pc # "spawned" /\ q.next # p.next) =>
                      /\ p.pc = "op"
                      /\ q.ops = p.ops + 1
                      /\ q.next = p.next + GapOf(kind)
                      /\ q.start = p.start
                /\ q.ops # p.ops => q.next = p.next + GapOf(kind)
                /\ q.j < p.j => (q.next = p.next /\ q.rounds >= 1)
                /\ q.next # p.next =>
                      /\ clock' = clock
                      /\ \A other \in Kinds \ {kind} :
                            pacer'[other] = pacer[other]]_vars

\* A writer that repeats its batch of two (focus = Read) has done three
\* operations, one of them after a sleep that overran: the clock is past
\* its next, which is start + 3 * gap all the same.
C14_Witness ==
    LET p == pacer["writer"] IN
    /\ focus = "Read"
    /\ Batch(writes_per_second) = 2
    /\ p.rounds >= 1
    /\ p.ops = 3
    /\ p.start = 1
    /\ p.next = 1 + 3 * GapOf("writer")
    /\ clock > p.next
    /\ pacer["reader"].ops >= 1

(***************************************************************************)
(* C15: when an operation is due a sub-task reads the clock and sleeps if  *)
(* and only if the value read is strictly less than next, and then asks    *)
(* for exactly next - now; otherwise it goes straight on to the operation. *)
(* So the k-th operation of a sub-task does not start before               *)
(* start + (k-1) * gap, and a sub-task that reads now >= next does its     *)
(* operation without a sleep.                                              *)
(***************************************************************************)
C15_PacerProtocol ==
    /\ [](\A kind \in Kinds :
            LET p == pacer[kind] IN
            /\ p.pc = "sleep" =>
                  (p.now < p.next /\ p.sleep = p.next - p.now /\ p.slept)
            /\ p.pc = "op" =>
                  /\ p.slept <=> p.now < p.next
                  /\ ~p.slept => (p.sleep = 0 /\ p.now >= p.next)
                  /\ clock >= p.next)
    /\ [][\A kind \in Kinds :
            LET p == pacer[kind]
                q == pacer'[kind]
            IN  /\ (p.pc = "batch" /\ q.pc \in {"sleep", "op"}) =>
                      /\ q.now = clock
                      /\ q.pc = "sleep" <=> clock < p.next
                      /\ q.pc = "op" <=> clock >= p.next
                /\ q.pc = "sleep" => p.pc \in {"batch", "sleep"}
                /\ q.ops = p.ops + 1 =>
                      /\ p.pc = "op"
                      /\ clock >= p.start + p.ops * GapOf(kind)]_vars

\* The reader, ahead of schedule, is asleep for next - now, while the
\* writer, which read a clock past its next, is at its second operation
\* without having slept.
C15_Witness ==
    LET w == pacer["writer"]
        r == pacer["reader"]
    IN  /\ r.pc = "sleep"
        /\ r.ops = 1
        /\ r.sleep = r.next - r.now
        /\ r.sleep > 0
        /\ w.pc = "op"
        /\ w.ops = 1
        /\ ~w.slept
        /\ w.now > w.next

(***************************************************************************)
(* C20: with a clock that does not go back and sleeps that last at least   *)
(* as long as asked, a sub-task that does at least one operation has a gap *)
(* of at most 10^9 ns, its next is never more than one gap ahead of the    *)
(* clock, and every sleep it asks for is at most one gap, hence at most    *)
(* 10^9 ns, far below 2^64: the narrowing to u64 keeps the value.          *)
(***************************************************************************)
C20_SleepBound ==
    \A kind \in Kinds :
       LET p == pacer[kind] IN
       /\ (p.ops >= 1 \/ p.pc \in {"sleep", "op"}) =>
             /\ GapOf(kind) <= 1000000000
             /\ RateOf(kind) >= threads_each
       /\ p.pc # "spawned" => p.next - clock <= GapOf(kind)
       /\ p.pc = "sleep" =>
             /\ p.sleep > 0
             /\ p.sleep <= GapOf(kind)
             /\ p.sleep <= 1000000000
       /\ p.sleep >= 0

\* The writer has done an operation and, the clock still showing its start
\* time, asks to sleep for a whole gap; the reader has rate 1, a gap of
\* 2 * 10^9 ns and nothing to do.
C20_Witness ==
    LET w == pacer["writer"]
        r == pacer["reader"]
    IN  /\ w.pc = "sleep"
        /\ w.ops >= 1
        /\ w.sleep = GapOf("writer")
        /\ w.now = w.start
        /\ reads_per_second = 1
        /\ GapOf("reader") > 1000000000
        /\ r.pc \in {"batch", "exited"}
        /\ r.ops = 0

(***************************************************************************)
(* C10: test_init_many_maps never divides by zero at the progress          *)
(* boundary: for every entries (0 and 0 < entries < 100 included) it does  *)
(* not panic.                                                              *)
(***************************************************************************)
C10_NoDivideByZero == iPc # "panicked"

====
